---- MODULE Spec2Model ----
(***************************************************************************)
(* Model of src/benchmark.py: the benchmark harness for an extraction      *)
(* service.  One run of one entry point is modelled: run_benchmark         *)
(* (readiness probe, warm-up, estimator, sweep), or one direct call of     *)
(* wait_for_api, run_estimator, test_extraction or print_final_report.      *)
(*                                                                         *)
(* Time is counted in whole seconds.  Fields that the code rounds to a     *)
(* number of decimals are kept as integers in the unit of the last         *)
(* decimal: elapsed_minutes, rounded to 2 decimals, is in 1/100 minute.    *)
(* A text is kept as its length, a parsed JSON value as its shape.         *)
(***************************************************************************)
EXTENDS Integers, Sequences, FiniteSets, TLC

\* ------------------------------------------------------------------ bounds
MaxInputs == 2     \* pdf_files has at most this many entries
MaxRetries == 3    \* retries of wait_for_api is at most this
MaxElapsed == 2    \* a request takes at most this many seconds
MaxRecords == 3    \* a list given to print_final_report has at most this many records

\* ------------------------------------------------------------------ state
VARIABLES
    entry,           \* the function this run calls
    pc,              \* the position of the run
    pdf_files,       \* parameter: the inputs, in the caller's order
    strategies,      \* parameter: the strategies, in the caller's order
    warmup,          \* parameter
    estimate_pages,  \* parameter
    timeout,         \* parameter: the timeout handed to session.post
    save_raw,        \* parameter: whether the raw response is written to a side file
    retries,         \* parameter of wait_for_api
    latency,         \* seconds the clock advances during one request
    failure,         \* how the service's requests end when they do not answer 200
    body,            \* the body the service sends with its responses
    raw_fault,       \* the step at which writing the side file fails, if any
    disk,            \* the paths that reference an existing file
    i,               \* wait_for_api: the attempt number
    api_ready,       \* what wait_for_api returned: "pending", "true", "false"
    fi,              \* sweep: index of the current input
    si,              \* sweep: index of the next strategy
    results,         \* run_benchmark: the list returned
    r,               \* the value the last test_extraction of the sweep returned
    est,             \* the value run_estimator returned
    estimated,       \* the projection step: "no", "returned", "raised"
    last_answer,     \* how the last session.post ended
    calls,           \* history: the calls of run_estimator and test_extraction
    health_log,      \* history: per health-check request, whether it answered 200
    nSleeps,         \* history: sleeps of wait_for_api
    nPosts,          \* history: extraction requests issued
    nPauses,         \* history: pacing pauses of the sweep
    summary          \* what print_final_report has printed

vars == <<entry, pc, pdf_files, strategies, warmup, estimate_pages, timeout,
          save_raw, retries, latency, failure, body, raw_fault, disk, i,
          api_ready, fi, si, results, r, est, estimated, last_answer, calls,
          health_log, nSleeps, nPosts, nPauses, summary>>

params == <<entry, pdf_files, strategies, warmup, estimate_pages, timeout,
            save_raw, retries, latency, failure, body, raw_fault>>

\* The number of health-check requests issued so far.
nHealth == Len(health_log)

\* ------------------------------------------------------- the environment
\* The file system the run starts with: two PDF files that exist and one
\* path that references no file.
ExistingFiles == {"a.pdf", "b.pdf"}
Files == ExistingFiles \cup {"gone.pdf"}

\* Python's None, as a record distinct from every measurement record.
None == [none |-> TRUE]

\* count_pages returns None when PyPDF2 cannot read the file.
NoPages == -1

\* Path.stem of the input files.
Stem(p) ==
    CASE p = "a.pdf" -> "a"
      [] p = "b.pdf" -> "b"
      [] OTHER -> "gone"

\* extract_head_pdf names its output "<stem>_head<n>.pdf".
HeadName(src, n) == Stem(src) \o "_head" \o ToString(n) \o ".pdf"

SamplePaths == {HeadName(f, n) : f \in Files, n \in 1..2}

\* The number of pages PdfReader finds in each file: a.pdf has two pages,
\* b.pdf cannot be read by PyPDF2, a sample written by extract_head_pdf has
\* the pages it was given.
ReaderPages(p) ==
    CASE p = "a.pdf" -> 2
      [] p \in {HeadName(f, 1) : f \in Files} -> 1
      [] p \in {HeadName(f, 2) : f \in Files} -> 2
      [] OTHER -> NoPages

\* st_size / (1024 * 1024), for files of a whole number of MB.
file_size_mb(p) ==
    CASE p = "a.pdf" -> 10
      [] p = "b.pdf" -> 20
      [] OTHER -> 1

\* ------------------------------------------------------------- utilities
\* Python's round(n / d) for n >= 0, d > 0: nearest integer, ties to even.
RoundDiv(n, d) ==
    LET q == n \div d
        m == n % d
    IN  IF 2 * m < d THEN q
        ELSE IF 2 * m > d THEN q + 1
        ELSE IF q % 2 = 0 THEN q ELSE q + 1

\* The greatest common divisor of two naturals.
RECURSIVE GCD(_, _)
GCD(a, b) == IF b = 0 THEN a ELSE GCD(b, a % b)

\* The quotient n / d of Python's true division, d > 0, as a fraction in
\* lowest terms.
Ratio(n, d) == [num |-> n \div GCD(n, d), den |-> d \div GCD(n, d)]

\* Python's round(n / d, 5): the whole part and the five decimals, the
\* decimals in units of 1/100000.
Decimal5(n, d) ==
    LET q == n \div d
        f == RoundDiv((n % d) * 100000, d)
    IN  IF f = 100000 THEN [whole |-> q + 1, e5 |-> 0]
        ELSE [whole |-> q, e5 |-> f]

\* A value rounded to five decimals, in units of 1/100000.
E5(x) == x.whole * 100000 + x.e5

\* count_pages: len(reader.pages), or None on any exception (a missing or
\* unreadable file).
count_pages(fs, pdf_path) ==
    IF pdf_path \in fs THEN ReaderPages(pdf_path) ELSE NoPages

\* ensure_dir + PdfReader + PdfWriter of extract_head_pdf: the path of the
\* sample holding the first n pages, or None when n <= 0 or when reading or
\* writing raised (ok = FALSE stands for the exception caught at line 99).
extract_head_pdf(fs, src, n_pages, ok) ==
    LET len_pages == count_pages(fs, src)
        n == IF n_pages < len_pages THEN n_pages ELSE len_pages
    IN  IF ~ok \/ len_pages = NoPages THEN None
        ELSE IF n <= 0 THEN None
        ELSE [path |-> HeadName(src, n)]

\* ------------------------------------------------- answers of the service
\* What session.post ends with: a response with a status code, or one of
\* the exceptions of requests.
Response(status) == [kind |-> "response", status_code |-> status]
TimeoutRaised == [kind |-> "Timeout", status_code |-> 0]
ConnectionRaised == [kind |-> "ConnectionError", status_code |-> 0]
Failures == {Response(500), TimeoutRaised, ConnectionRaised}

\* How a request of this run can end: the service answers 200 or fails in
\* the way it fails during this run.
Answers == {Response(200), failure}

\* The values response.json() and json.loads return, by shape: a list of
\* len elements, a string (decoded is what json.loads makes of it, NotJson
\* when it raises), an object (elements is its value under the key
\* 'elements', Missing when it has no such key), a number.
JsonList(n) == [type |-> "list", len |-> n]
JsonString(decoded) == [type |-> "str", decoded |-> decoded]
JsonDict(elements) == [type |-> "dict", elements |-> elements]
JsonNumber == [type |-> "number"]
NotJson == [type |-> "invalid"]
Missing == [type |-> "missing"]

\* The bodies the service sends in the runs explored: response.text has
\* text_len characters, response.json() returns json or raises (NotJson).
JsonPayloads ==
    {JsonList(0), JsonList(2), JsonDict(JsonList(1)),
     JsonDict(JsonString(JsonList(2))), JsonDict(JsonString(JsonNumber)),
     JsonDict(JsonString(NotJson)), JsonDict(JsonNumber), JsonDict(Missing),
     JsonString(JsonList(2)), JsonNumber, NotJson}

\* response.text[:600] keeps at most this many characters.
SnippetMax == 600

BodyLengths == {0, SnippetMax, SnippetMax + 1}
Bodies == [text_len : BodyLengths, json : JsonPayloads]

\* The body of the runs that do not vary it: a list of two elements.
DefaultBody == [text_len |-> SnippetMax + 1, json |-> JsonList(2)]

\* A direct call of test_extraction is also answered with another status of
\* the 2xx range.
DirectAnswers == Answers \cup {Response(201)}

\* What session.get(healthcheck) ends with.
HealthAnswers == {Response(200), Response(503), ConnectionRaised}

\* ------------------------------------------------------- test_extraction
\* TimeoutRecord with a fault: the elapsed time is capped at the timeout.
TimeoutRecordCapped(pdf_path, strategy, elapsed) ==
    [filename |-> pdf_path, strategy |-> strategy, success |-> FALSE,
     error |-> "Timeout",
     elapsed_minutes |->
         RoundDiv((IF elapsed > timeout THEN timeout ELSE elapsed) * 100, 60)]

\* The record of the `except requests.exceptions.Timeout` branch.
TimeoutRecord(pdf_path, strategy, elapsed) ==
    [filename |-> pdf_path, strategy |-> strategy, success |-> FALSE,
     error |-> "Timeout", elapsed_minutes |-> RoundDiv(elapsed * 100, 60)]

\* The record of the `except Exception` branch; error is str(e).
ExceptionRecord(pdf_path, strategy, e, elapsed) ==
    [filename |-> pdf_path, strategy |-> strategy, success |-> FALSE,
     error |-> e, elapsed_minutes |-> RoundDiv(elapsed * 100, 60)]

\* response.text[:600], as the number of characters kept.
Snippet(text_len) == IF text_len < SnippetMax THEN text_len ELSE SnippetMax

\* The record of the non-200 branch.
HttpErrorRecord(pdf_path, strategy, status, content) ==
    [filename |-> pdf_path, strategy |-> strategy, success |-> FALSE,
     error |-> "HTTP " \o ToString(status),
     response_snippet |-> Snippet(content.text_len)]

\* Line 159: the status that takes the success branch.
SuccessStatus(status) == status = 200

\* safe_json: response.json(), or the object {"raw_text": ...} when it raises.
safe_json(content) ==
    IF content.json = NotJson THEN JsonDict(Missing) ELSE content.json

\* Lines 163-168: a list is the elements, an object holds them under
\* 'elements' (or is taken itself when it has no such key), any other value
\* gives the empty list.
Elements(data_parsed) ==
    IF data_parsed.type = "list" THEN data_parsed
    ELSE IF data_parsed.type = "dict"
        THEN IF data_parsed.elements = Missing THEN data_parsed
             ELSE data_parsed.elements
    ELSE JsonList(0)

\* Lines 170-175: elements that are a string are decoded with json.loads;
\* what is decoded is kept when it is a list, else the empty list is taken.
DecodeElements(elements) ==
    IF elements.type = "str"
    THEN IF elements.decoded.type = "list" THEN elements.decoded ELSE JsonList(0)
    ELSE elements

\* Line 177: len(elements) if elements is a list, else 0.
elements_count(content) ==
    LET elements == DecodeElements(Elements(safe_json(content)))
    IN  IF elements.type = "list" THEN elements.len ELSE 0

\* pages_per_min is None unless pages is known, non-zero and elapsed > 0;
\* print_info("Pages/min:", f"{pages_per_min:.3f}") then raises TypeError
\* when pages is not None, inside the try block.
PagesPerMinIsNone(pages, elapsed) == ~(pages # NoPages /\ pages # 0 /\ elapsed > 0)
FormatRaises(pages, elapsed) == pages # NoPages /\ PagesPerMinIsNone(pages, elapsed)

\* Lines 178-180: the size rates, 0 when no time elapsed; each rounded to
\* five decimals.
speed_mb_per_sec(size, elapsed) ==
    IF elapsed > 0 THEN Decimal5(size, elapsed) ELSE Decimal5(0, 1)
speed_mb_per_min(size, elapsed) ==
    IF elapsed > 0 THEN Decimal5(size * 60, elapsed) ELSE Decimal5(0, 1)
speed_mb_per_hour(size, elapsed) ==
    IF elapsed > 0 THEN Decimal5(size * 3600, elapsed) ELSE Decimal5(0, 1)

\* Lines 181 and 197: pages per minute in 1/10000, or None.
pages_per_minute(pages, elapsed) ==
    IF PagesPerMinIsNone(pages, elapsed) THEN None
    ELSE RoundDiv(pages * 60 * 10000, elapsed)

\* Lines 182 and 198: pages per hour in 1/100, or None.
pages_per_hour(pages, elapsed) ==
    IF PagesPerMinIsNone(pages, elapsed) THEN None
    ELSE RoundDiv(pages * 3600 * 100, elapsed)

\* The report of the status 200 branch (lines 184-203).  The times are in
\* seconds, 1/1000 minute and 1/100000 hour.
SuccessRecord(pdf_path, strategy, pages, elapsed, content) ==
    [filename |-> pdf_path, strategy |-> strategy, success |-> TRUE,
     size_mb |-> file_size_mb(pdf_path), pages |-> pages,
     processing_time_seconds |-> elapsed,
     processing_time_minutes |-> RoundDiv(elapsed * 1000, 60),
     processing_time_hours |-> RoundDiv(elapsed * 100000, 3600),
     elements_count |-> elements_count(content),
     speed_mb_per_second |-> speed_mb_per_sec(file_size_mb(pdf_path), elapsed),
     speed_mb_per_minute |-> speed_mb_per_min(file_size_mb(pdf_path), elapsed),
     speed_mb_per_hour |-> speed_mb_per_hour(file_size_mb(pdf_path), elapsed),
     pages_per_minute |-> pages_per_minute(pages, elapsed),
     pages_per_hour |-> pages_per_hour(pages, elapsed),
     status_code |-> 200]

\* Lines 148-157: the steps of writing the side file that can fail.
RawFaults == {"mkdir", "open", "write"}

\* ensure_dir(raw_dir) at line 149 is outside the try block of lines
\* 152-157: its exception reaches `except Exception` at line 238.  An
\* exception of open or write is caught at line 156 and printed.
SaveRawRaises(save, fault) == save /\ fault = "mkdir"

\* The side file "<stem>_<strategy>_<start time>.json" of raw_dir.
raw_path(pdf_path, strategy) ==
    "responses/" \o Stem(pdf_path) \o "_" \o strategy \o ".json"

\* The side file exists once open succeeded.
RawWritten(save, fault) == save /\ fault \notin {"mkdir", "open"}

\* Line 113: the guard on the input path.
InputFound(fs, pdf_path) == pdf_path \in fs

\* NotFoundResult with a fault: a failure record instead of None.
NotFoundAsRecord(pdf_path, strategy) ==
    [filename |-> pdf_path, strategy |-> strategy, success |-> FALSE,
     error |-> "input not found"]

\* What test_extraction returns when the input path references no file.
NotFoundResult(pdf_path, strategy) == None

\* test_extraction, given how session.post ends (answer), the body of the
\* response (content), what the clock shows (elapsed), save_raw (save) and
\* the step at which writing the side file fails (fault, "none" if none).
test_extraction(fs, pdf_path, strategy, answer, elapsed, content, save, fault) ==
    LET pages == count_pages(fs, pdf_path)
    IN  IF ~InputFound(fs, pdf_path) THEN NotFoundResult(pdf_path, strategy)
        ELSE IF answer.kind = "Timeout"
            THEN TimeoutRecord(pdf_path, strategy, elapsed)
        ELSE IF answer.kind # "response"
            THEN ExceptionRecord(pdf_path, strategy, answer.kind, elapsed)
        ELSE IF SaveRawRaises(save, fault)
            THEN ExceptionRecord(pdf_path, strategy, "OSError", elapsed)
        ELSE IF SuccessStatus(answer.status_code)
            THEN IF FormatRaises(pages, elapsed)
                 THEN ExceptionRecord(pdf_path, strategy, "TypeError", elapsed)
                 ELSE SuccessRecord(pdf_path, strategy, pages, elapsed, content)
        ELSE HttpErrorRecord(pdf_path, strategy, answer.status_code, content)

\* session.post (line 143) is reached exactly when the input was found.
RequestSent(fs, pdf_path) == InputFound(fs, pdf_path)

\* The files test_extraction leaves: the side file, when the request was
\* answered and the file could be opened.
RawFiles(fs, pdf_path, strategy, answer, save, fault) ==
    IF InputFound(fs, pdf_path) /\ answer.kind = "response" /\ RawWritten(save, fault)
    THEN {raw_path(pdf_path, strategy)}
    ELSE {}

\* `if r` / `r.get('success')` of the callers.
IsRecord(rec) == rec # None
Succeeded(rec) == IsRecord(rec) /\ rec.success

\* --------------------------------------------------------- run_estimator
\* Projection with a fault: the total is projected from the pages left after
\* the sample, not from the full page count.
ProjectionOfRemainder(res, n_pages, total_pages, sample_path) ==
    [sample_pages |-> n_pages, total_pages |-> total_pages,
     time_per_page_seconds |->
         RoundDiv(res.processing_time_seconds * 1000, n_pages),
     estimated_total_seconds |->
         RoundDiv(res.processing_time_seconds * (total_pages - n_pages) * 100,
                  n_pages),
     estimated_total_minutes |->
         RoundDiv(res.processing_time_seconds * (total_pages - n_pages) * 100,
                  n_pages * 60),
     estimated_total_hours |->
         RoundDiv(res.processing_time_seconds * (total_pages - n_pages) * 1000,
                  n_pages * 3600),
     strategy |-> res.strategy, sample_file |-> sample_path]

\* The projection of lines 294-310, for a successful sample measurement.
\* time_per_page_seconds is in 1/1000 s, estimated_total_seconds in 1/100 s,
\* estimated_total_minutes in 1/100 min, estimated_total_hours in 1/1000 h;
\* each is rounded from the exact quotient, as the code rounds the unrounded
\* time_per_page_s, est_total_seconds, est_total_minutes and est_total_hours.
Projection(res, n_pages, total_pages, sample_path) ==
    [sample_pages |-> n_pages, total_pages |-> total_pages,
     time_per_page_seconds |->
         RoundDiv(res.processing_time_seconds * 1000, n_pages),
     estimated_total_seconds |->
         RoundDiv(res.processing_time_seconds * total_pages * 100, n_pages),
     estimated_total_minutes |->
         RoundDiv(res.processing_time_seconds * total_pages * 100, n_pages * 60),
     estimated_total_hours |->
         RoundDiv(res.processing_time_seconds * total_pages * 1000,
                  n_pages * 3600),
     strategy |-> res.strategy, sample_file |-> sample_path]

\* EstimatorApplies with a fault: a document no longer than the sample is sampled.
EstimatorAppliesAnyLength(n_pages, total_pages) ==
    /\ n_pages > 0
    /\ total_pages # NoPages
    /\ total_pages # 0

\* Lines 276-282: the guards that skip the projection before any sample is made.
EstimatorApplies(n_pages, total_pages) ==
    /\ n_pages > 0
    /\ total_pages # NoPages
    /\ total_pages # 0
    /\ total_pages > n_pages

\* run_estimator, given whether extract_head_pdf could write the sample (ok),
\* how session.post ends, what the clock shows, the body of the response,
\* save_raw and the fault of writing the side file.  out is the value returned,
\* sample the path written (None if none), measured whether test_extraction
\* was called on the sample.
run_estimator(fs, original_pdf, strategy, n_pages, ok, answer, elapsed, content, save, fault) ==
    LET total_pages == count_pages(fs, original_pdf)
        sample == IF EstimatorApplies(n_pages, total_pages)
                  THEN extract_head_pdf(fs, original_pdf, n_pages, ok)
                  ELSE None
        fs2 == IF sample = None THEN fs ELSE fs \cup {sample.path}
        res == IF sample = None THEN None
               ELSE test_extraction(fs2, sample.path, strategy, answer, elapsed,
                                    content, save, fault)
    IN  [out |-> IF Succeeded(res)
                 THEN Projection(res, n_pages, total_pages, sample.path)
                 ELSE None,
         sample |-> sample,
         measured |-> sample # None,
         res |-> res]

\* ----------------------------------------------------------------- inputs
SeqsUpTo(S, n) == UNION {[1..k -> S] : k \in 0..n}

InputLists == SeqsUpTo(Files, MaxInputs)

\* The default of --strategies, its prefixes, and a single other strategy.
StrategyLists == {<< >>, <<"fast">>, <<"hi_res">>, <<"fast", "hi_res">>}

\* --estimate: 0 disables the estimator.
EstimateChoices == {-1, 0, 1, 2}

\* The runs of run_benchmark explored: the estimator disabled or sampling one
\* page, requests that take no time or one second.
BenchmarkEstimates == {0, 1}
BenchmarkLatencies == {0, 1}

Timeouts == {1}

\* run_benchmark calls wait_for_api with the default retries (20); the runs
\* of run_benchmark explored here give the probe two attempts.
BenchmarkRetries == {2}

NoAnswer == [kind |-> "none", status_code |-> 0]

\* save_raw is off (the default of --save-raw).
NoRaw == save_raw = FALSE /\ raw_fault = "none"

Start ==
    /\ timeout \in Timeouts
    /\ failure \in Failures
    /\ summary = None
    /\ disk = ExistingFiles
    /\ i = 1
    /\ api_ready = "pending"
    /\ fi = 1
    /\ si = 1
    /\ r = None
    /\ est = None
    /\ estimated = "no"
    /\ last_answer = NoAnswer
    /\ calls = << >>
    /\ health_log = << >>
    /\ nSleeps = 0
    /\ nPosts = 0
    /\ nPauses = 0

\* run_benchmark(pdf_files, strategies, warmup, timeout, estimate_pages).
InitBenchmark ==
    /\ entry = "run_benchmark"
    /\ pc = "wait_for_api"
    /\ pdf_files \in InputLists
    /\ strategies \in StrategyLists
    /\ warmup \in BOOLEAN
    /\ estimate_pages \in BenchmarkEstimates
    /\ retries \in BenchmarkRetries
    /\ latency \in BenchmarkLatencies
    /\ NoRaw
    /\ body = DefaultBody
    /\ results = << >>
    /\ Start

\* wait_for_api(session, api_url, retries, delay).
InitProbe ==
    /\ entry = "wait_for_api"
    /\ pc = "wait_for_api"
    /\ pdf_files = << >>
    /\ strategies = << >>
    /\ warmup = FALSE
    /\ estimate_pages = 0
    /\ retries \in 0..MaxRetries
    /\ latency = 0
    /\ NoRaw
    /\ body = DefaultBody
    /\ results = << >>
    /\ Start

\* run_estimator(session, original_pdf, strategy, ..., estimate_pages, ...).
InitEstimator ==
    /\ entry = "run_estimator"
    /\ pc = "run_estimator"
    /\ pdf_files \in {<<f>> : f \in Files}
    /\ strategies \in {<<"fast">>, <<"hi_res">>}
    /\ warmup = FALSE
    /\ estimate_pages \in EstimateChoices
    /\ retries = 0
    /\ latency \in 0..MaxElapsed
    /\ NoRaw
    /\ body = DefaultBody
    /\ results = << >>
    /\ Start

\* test_extraction(session, pdf_path, strategy, api_url, timeout, ...).
InitExtraction ==
    /\ entry = "test_extraction"
    /\ pc = "test_extraction"
    /\ pdf_files \in {<<f>> : f \in Files}
    /\ strategies \in {<<"fast">>, <<"hi_res">>}
    /\ warmup = FALSE
    /\ estimate_pages = 0
    /\ retries = 0
    /\ latency \in 0..MaxElapsed
    /\ \/ NoRaw
       \/ save_raw = TRUE /\ raw_fault \in RawFaults \cup {"none"}
    /\ body \in Bodies
    /\ results = << >>
    /\ Start

\* The seconds a measurement of a list given to print_final_report took.
ReportElapsed == {0, 30, 60}

\* The records of the lists given to print_final_report: what
\* test_extraction returns for the files that exist, answered 200 or 500.
ReportRecords ==
    {test_extraction(ExistingFiles, f, "fast", answer, e, DefaultBody, FALSE, "none") :
        f \in ExistingFiles, answer \in {Response(200), Response(500)},
        e \in ReportElapsed}

\* print_final_report(results).
InitReport ==
    /\ entry = "print_final_report"
    /\ pc = "print_final_report"
    /\ pdf_files = << >>
    /\ strategies = << >>
    /\ warmup = FALSE
    /\ estimate_pages = 0
    /\ retries = 0
    /\ latency = 0
    /\ NoRaw
    /\ body = DefaultBody
    /\ results \in SeqsUpTo(ReportRecords, MaxRecords)
    /\ Start
    /\ failure = Response(500)

Init == InitBenchmark \/ InitProbe \/ InitEstimator \/ InitExtraction \/ InitReport

\* ---------------------------------------------------------- wait_for_api
\* MoreAttempts with a fault: the loop stops one attempt early.
MoreAttemptsOneShort(attempt, max_attempts) == attempt < max_attempts

\* MoreAttempts with a fault: the loop makes one attempt more.
MoreAttemptsOneExtra(attempt, max_attempts) == attempt <= max_attempts + 1

\* `for i in range(1, retries + 1)`: another attempt is made.
MoreAttempts(attempt, max_attempts) == attempt <= max_attempts

\* AfterProbe with a fault: run_benchmark goes on whatever the probe returned.
AfterProbeIgnoringResult(caller, ok) ==
    IF caller = "run_benchmark" THEN "warmup" ELSE "done"

\* Lines 334-335: run_benchmark goes on only when the probe returned True;
\* a direct call of wait_for_api ends with its return.
AfterProbe(caller, ok) ==
    IF caller = "run_benchmark" /\ ok THEN "warmup" ELSE "done"

\* One attempt: session.get(url, timeout=3).  Status 200 returns True;
\* any other status or an exception leads to time.sleep(delay).
HealthCheck ==
    /\ pc = "wait_for_api"
    /\ MoreAttempts(i, retries)
    /\ \E answer \in HealthAnswers :
          /\ health_log' = Append(health_log, answer = Response(200))
          /\ IF answer = Response(200)
             THEN /\ api_ready' = "true"
                  /\ pc' = AfterProbe(entry, TRUE)
             ELSE /\ api_ready' = api_ready
                  /\ pc' = "sleep"
    /\ UNCHANGED <<params, summary, disk, i, fi, si, results, r, est, estimated,
                   last_answer, calls, nSleeps, nPosts, nPauses>>

\* Line 263: time.sleep(delay) after a failed attempt, then the next i.
ProbeSleep ==
    /\ pc = "sleep"
    /\ nSleeps' = nSleeps + 1
    /\ i' = i + 1
    /\ pc' = "wait_for_api"
    /\ UNCHANGED <<params, summary, disk, api_ready, fi, si, results, r, est, estimated,
                   last_answer, calls, health_log, nPosts, nPauses>>

\* Lines 264-265: the loop is exhausted, wait_for_api returns False.
ProbeExhausted ==
    /\ pc = "wait_for_api"
    /\ ~MoreAttempts(i, retries)
    /\ api_ready' = "false"
    /\ pc' = AfterProbe(entry, FALSE)
    /\ UNCHANGED <<params, summary, disk, i, fi, si, results, r, est, estimated,
                   last_answer, calls, health_log, nSleeps, nPosts, nPauses>>

\* ------------------------------------------- one call of test_extraction
\* The history a call of test_extraction leaves: the call, the request it
\* sent (if the input was found) and how that request ended.
Called(before, phase, pdf_path, strategy, answer) ==
    /\ calls' = Append(before, <<phase, pdf_path, strategy>>)
    /\ nPosts' = nPosts + (IF RequestSent(disk', pdf_path) THEN 1 ELSE 0)
    /\ last_answer' = IF RequestSent(disk', pdf_path) THEN answer ELSE NoAnswer

\* A direct call of test_extraction.
ExtractionCall ==
    /\ pc = "test_extraction"
    /\ \E answer \in DirectAnswers :
          /\ r' = test_extraction(disk, pdf_files[1], strategies[1], answer, latency,
                                  body, save_raw, raw_fault)
          /\ disk' = disk \cup RawFiles(disk, pdf_files[1], strategies[1], answer,
                                        save_raw, raw_fault)
          /\ Called(calls, "direct", pdf_files[1], strategies[1], answer)
    /\ pc' = "done"
    /\ UNCHANGED <<params, summary, i, api_ready, fi, si, results, est, estimated,
                   health_log, nSleeps, nPauses>>

\* ----------------------------------------------------- warm-up (337-340)
\* WarmUpResults with a fault: the record of the warm-up call is kept.
WarmUpKept(list, rec) == IF IsRecord(rec) THEN Append(list, rec) ELSE list

\* The record of the warm-up call is not kept.
WarmUpResults(list, rec) == list

\* WarmUpEnabled with a fault: the warm-up is made whatever the flag says.
WarmUpWhateverFlag(flag, inputs) == inputs # << >>

\* Line 338: `if warmup and pdf_files`.
WarmUpEnabled(flag, inputs) == flag /\ inputs # << >>

WarmUp ==
    /\ pc = "warmup"
    /\ IF WarmUpEnabled(warmup, pdf_files)
       THEN IF strategies = << >>
            THEN \* strategies[0] raises IndexError, which nothing catches
                 /\ pc' = "raised"
                 /\ UNCHANGED <<results, disk, calls, nPosts, last_answer>>
            ELSE \E answer \in Answers :
                 /\ results' = WarmUpResults(results,
                        test_extraction(disk, pdf_files[1], strategies[1], answer, latency,
                                        body, save_raw, raw_fault))
                 /\ disk' = disk \cup RawFiles(disk, pdf_files[1], strategies[1], answer,
                                               save_raw, raw_fault)
                 /\ Called(calls, "warmup", pdf_files[1], strategies[1], answer)
                 /\ pc' = "estimator"
       ELSE /\ pc' = "estimator"
            /\ UNCHANGED <<results, disk, calls, nPosts, last_answer>>
    /\ UNCHANGED <<params, summary, i, api_ready, fi, si, r, est, estimated,
                   health_log, nSleeps, nPauses>>

\* ------------------------------------------------- estimator (342-354)
\* Line 343: `estimate_pages and estimate_pages > 0 and pdf_files`.
EstimatorEnabled(pages, inputs) == pages # 0 /\ pages > 0 /\ inputs # << >>

\* Lines 353-354: an exception of the projection step is printed and the
\* run goes on to the sweep.
OnEstimatorError == "sweep"

\* EstimatorResults with a fault: the record of the sample measurement is kept.
EstimatorSampleKept(list, outcome) ==
    IF IsRecord(outcome.res) THEN Append(list, outcome.res) ELSE list

\* The outcome of run_estimator is not merged into the result list.
EstimatorResults(list, outcome) == list

\* The history with one more call of run_estimator.
Invoked(original_pdf, strategy) ==
    Append(calls, <<"run_estimator", original_pdf, strategy>>)

\* AfterEstimator with a fault: a projection that is not applicable ends the run.
AfterEstimatorAbortOnNone(outcome) == IF outcome = None THEN "done" ELSE "sweep"

\* What run_benchmark does with the value run_estimator returned (`_ = ...`):
\* nothing, it goes on to the sweep.
AfterEstimator(outcome) == "sweep"

\* The effects of one call run_estimator(original_pdf, strategy, estimate_pages).
EstimatorEffects(original_pdf, strategy) ==
    \E ok \in BOOLEAN, answer \in Answers :
        LET e == run_estimator(disk, original_pdf, strategy, estimate_pages,
                               ok, answer, latency, body, save_raw, raw_fault)
        IN  /\ est' = e.out
            /\ estimated' = "returned"
            /\ results' = EstimatorResults(results, e)
            /\ IF e.measured
               THEN /\ disk' = disk \cup {e.sample.path}
                                 \cup RawFiles(disk \cup {e.sample.path}, e.sample.path,
                                               strategy, answer, save_raw, raw_fault)
                    /\ Called(Invoked(original_pdf, strategy), "sample",
                              e.sample.path, strategy, answer)
               ELSE /\ disk' = disk
                    /\ calls' = Invoked(original_pdf, strategy)
                    /\ UNCHANGED <<nPosts, last_answer>>

Estimator ==
    /\ pc = "estimator"
    /\ IF EstimatorEnabled(estimate_pages, pdf_files)
       THEN IF strategies = << >>
            THEN \* strategies[0] raises IndexError inside the try block
                 /\ estimated' = "raised"
                 /\ pc' = OnEstimatorError
                 /\ UNCHANGED <<est, results, disk, calls, nPosts, last_answer>>
            ELSE /\ EstimatorEffects(pdf_files[1], strategies[1])
                 /\ pc' = AfterEstimator(est')
       ELSE /\ pc' = "sweep"
            /\ UNCHANGED <<est, estimated, results, disk, calls, nPosts, last_answer>>
    /\ UNCHANGED <<params, summary, i, api_ready, fi, si, r, health_log, nSleeps, nPauses>>

\* A direct call of run_estimator.
EstimatorCall ==
    /\ pc = "run_estimator"
    /\ EstimatorEffects(pdf_files[1], strategies[1])
    /\ pc' = "done"
    /\ UNCHANGED <<params, summary, i, api_ready, fi, si, r, health_log, nSleeps, nPauses>>

\* --------------------------------------------------------- sweep (357-367)
\* Pauses with a fault: the sweep pauses after every record, failures included.
PausesAfterEveryRecord(rec) == IF IsRecord(rec) THEN 1 ELSE 0

\* Lines 365-366: `if r and r.get('success'): time.sleep(2)`.
Pauses(rec) == IF Succeeded(rec) THEN 1 ELSE 0

\* Collect with a fault: only the records of successful measurements are kept.
CollectSuccessesOnly(list, rec) == IF Succeeded(rec) THEN Append(list, rec) ELSE list

\* Collect with a fault: the record is put in front of the list.
CollectInFront(list, rec) == IF IsRecord(rec) THEN <<rec>> \o list ELSE list

\* Lines 363-364: `if r: results.append(r)`.
Collect(list, rec) == IF IsRecord(rec) THEN Append(list, rec) ELSE list

\* One pass of the inner loop: test_extraction for the current input and the
\* next strategy, the append and the pause.
SweepCall ==
    /\ pc = "sweep"
    /\ fi <= Len(pdf_files)
    /\ si <= Len(strategies)
    /\ \E answer \in Answers :
          LET rec == test_extraction(disk, pdf_files[fi], strategies[si], answer, latency,
                                     body, save_raw, raw_fault)
          IN  /\ r' = rec
              /\ results' = Collect(results, rec)
              /\ nPauses' = nPauses + Pauses(rec)
              /\ disk' = disk \cup RawFiles(disk, pdf_files[fi], strategies[si], answer,
                                            save_raw, raw_fault)
              /\ Called(calls, "sweep", pdf_files[fi], strategies[si], answer)
    /\ si' = si + 1
    /\ UNCHANGED <<params, summary, pc, i, api_ready, fi, est, estimated, health_log, nSleeps>>

\* The inner loop is exhausted: the outer loop takes the next input.
SweepNextFile ==
    /\ pc = "sweep"
    /\ fi <= Len(pdf_files)
    /\ si > Len(strategies)
    /\ fi' = fi + 1
    /\ si' = 1
    /\ UNCHANGED <<params, summary, pc, disk, i, api_ready, results, r, est, estimated,
                   last_answer, calls, health_log, nSleeps, nPosts, nPauses>>

\* Line 367: the outer loop is exhausted, run_benchmark returns results.
SweepReturn ==
    /\ pc = "sweep"
    /\ fi > Len(pdf_files)
    /\ pc' = "done"
    /\ UNCHANGED <<params, summary, disk, i, api_ready, fi, si, results, r, est, estimated,
                   last_answer, calls, health_log, nSleeps, nPosts, nPauses>>

\* ---------------------------------------------- print_final_report (370-430)
\* sum(...) over a sequence of numbers.
RECURSIVE Sum(_)
Sum(seq) == IF seq = << >> THEN 0 ELSE Head(seq) + Sum(Tail(seq))

\* Lines 375-376: the records with a true 'success' and the others.
Successful(list) == SelectSeq(list, LAMBDA rec : rec.success)
Failed(list) == SelectSeq(list, LAMBDA rec : ~rec.success)

\* Lines 388-390: the totals over the successful records; the pages of the
\* records whose page count is known.
total_mb(successful) == Sum([k \in 1..Len(successful) |-> successful[k].size_mb])
total_seconds(successful) ==
    Sum([k \in 1..Len(successful) |-> successful[k].processing_time_seconds])
total_pages(successful) ==
    Sum([k \in 1..Len(successful) |->
            IF successful[k].pages # NoPages THEN successful[k].pages ELSE 0])

\* agg_mb_per_s with a fault: the rate is taken per minute.
AggRatePerMinute(mb, seconds) == IF seconds > 0 THEN Ratio(mb * 60, seconds) ELSE Ratio(0, 1)

\* Line 392: total_mb / total_seconds if total_seconds > 0 else 0.
agg_mb_per_s(mb, seconds) == IF seconds > 0 THEN Ratio(mb, seconds) ELSE Ratio(0, 1)

\* Line 393: agg_mb_per_s * 60.
agg_mb_per_min(mb, seconds) == IF seconds > 0 THEN Ratio(mb * 60, seconds) ELSE Ratio(0, 1)

\* Line 394: pages per minute over the total time, or None.
agg_pages_per_min(pages, seconds) ==
    IF pages # 0 /\ seconds > 0 THEN Ratio(pages * 60, seconds) ELSE None

\* The speed_mb_per_minute of the successful records, in 1/100000 MB/min.
Speeds(successful) ==
    [k \in 1..Len(successful) |-> E5(successful[k].speed_mb_per_minute)]

\* max(...) and min(...) over a non-empty sequence of numbers.
Max(seq) == CHOOSE x \in {seq[k] : k \in 1..Len(seq)} :
                \A k \in 1..Len(seq) : seq[k] <= x
Min(seq) == CHOOSE x \in {seq[k] : k \in 1..Len(seq)} :
                \A k \in 1..Len(seq) : seq[k] >= x

\* NoResults with a fault: the counts of an empty list are printed.
NoResultsAsCounts == [total_tests |-> 0, successful |-> 0, failed |-> 0]

\* Lines 371-373: an empty list prints "No results to report" and nothing
\* else.
NoResults == [message |-> "No results to report"]

\* What print_final_report prints.  The rates are exact fractions;
\* avg_speed, max_speed and min_speed are in 1/100000 MB/min and
\* daily_capacity_gb in 1/100000 GB/day (avg_speed * 60 * 24 / 1024).
print_final_report(list) ==
    LET successful == Successful(list)
        failed == Failed(list)
        mb == total_mb(successful)
        seconds == total_seconds(successful)
        pages == total_pages(successful)
    IN  IF list = << >> THEN NoResults
        ELSE IF successful = << >>
            THEN [total_tests |-> Len(list), successful |-> Len(successful),
                  successful_percent |-> RoundDiv(Len(successful) * 100, Len(list)),
                  failed |-> Len(failed)]
        ELSE [total_tests |-> Len(list), successful |-> Len(successful),
              successful_percent |-> RoundDiv(Len(successful) * 100, Len(list)),
              failed |-> Len(failed),
              total_mb |-> mb, total_seconds |-> seconds, total_pages |-> pages,
              agg_mb_per_s |-> agg_mb_per_s(mb, seconds),
              agg_mb_per_min |-> agg_mb_per_min(mb, seconds),
              agg_pages_per_min |-> agg_pages_per_min(pages, seconds),
              avg_speed |-> Ratio(Sum(Speeds(successful)), Len(successful)),
              max_speed |-> Max(Speeds(successful)),
              min_speed |-> Min(Speeds(successful)),
              daily_capacity_gb |->
                  Ratio(Sum(Speeds(successful)) * 45, Len(successful) * 32)]

\* A call of print_final_report.
FinalReport ==
    /\ pc = "print_final_report"
    /\ summary' = print_final_report(results)
    /\ pc' = "done"
    /\ UNCHANGED <<params, disk, i, api_ready, fi, si, results, r, est, estimated,
                   last_answer, calls, health_log, nSleeps, nPosts, nPauses>>

\* ---------------------------------------------------------- specification
Next ==
    \/ HealthCheck
    \/ ProbeSleep
    \/ ProbeExhausted
    \/ ExtractionCall
    \/ WarmUp
    \/ Estimator
    \/ EstimatorCall
    \/ SweepCall
    \/ SweepNextFile
    \/ SweepReturn
    \/ FinalReport

Spec == Init /\ [][Next]_vars

\* The run is one thread of control: session.get, session.post and
\* time.sleep return (or raise), so a step that can be taken is taken.
FairSpec == Spec /\ WF_vars(Next)

\* ------------------------------------------------------------ properties
\* The (input, strategy) pairs in the order of the sweep: input-major,
\* strategy-minor.
Pairs ==
    [k \in 1..(Len(pdf_files) * Len(strategies)) |->
        <<pdf_files[((k - 1) \div Len(strategies)) + 1],
          strategies[((k - 1) % Len(strategies)) + 1]>>]

\* The pairs among the first n of the sweep whose input file exists.
MeasuredPairs(n) == SelectSeq(SubSeq(Pairs, 1, n), LAMBDA p : p[1] \in ExistingFiles)

\* The number of pairs the sweep has gone through.
Visited == (fi - 1) * Len(strategies) + (si - 1)

\* The (input, strategy) pairs of the records of the result list.
RecordPairs == [k \in 1..Len(results) |-> <<results[k].filename, results[k].strategy>>]

\* The (input, strategy) pairs test_extraction was called with in the sweep.
SweepCalls ==
    LET sw == SelectSeq(calls, LAMBDA c : c[1] = "sweep")
    IN  [k \in 1..Len(sw) |-> <<sw[k][2], sw[k][3]>>]

Occurrences(seq, x) == Cardinality({k \in 1..Len(seq) : seq[k] = x})
PhaseCalls(phase) == {k \in 1..Len(calls) : calls[k][1] = phase}
IsPrefix(a, b) == Len(a) <= Len(b) /\ SubSeq(b, 1, Len(a)) = a
StrategyNames == {"fast", "hi_res"}

\* run_benchmark has returned after a successful probe.
Returned == entry = "run_benchmark" /\ pc = "done" /\ api_ready = "true"

\* C1: when wait_for_api returns False, run_benchmark has returned the empty
\* list and no call of test_extraction or run_estimator was made and no
\* extraction request was sent, whatever the inputs and strategies.
C1_ProbeFalseAborts ==
    (entry = "run_benchmark" /\ api_ready = "false")
        => (pc = "done" /\ results = << >> /\ calls = << >> /\ nPosts = 0)

C1_Witness ==
    /\ entry = "run_benchmark" /\ api_ready = "false" /\ pc = "done"
    /\ Len(pdf_files) = 2 /\ Len(strategies) = 2 /\ warmup /\ estimate_pages > 0

\* C2 as stated: after a successful probe the returned list has one record
\* per (input, strategy) pair, |inputs| x |strategies| records.
C2_OneRecordPerPair ==
    Returned => Len(results) = Len(pdf_files) * Len(strategies)

\* C2 as amended: after a successful probe the returned list holds, for every
\* input and strategy, as many records as the pair occurs in the sweep when
\* the input file exists and none when it does not, whatever way each
\* request ended.
C2_OneRecordPerMeasuredPair ==
    Returned =>
        /\ Len(results) = Len(MeasuredPairs(Len(Pairs)))
        /\ \A f \in Files, s \in StrategyNames :
              Occurrences(RecordPairs, <<f, s>>) =
                  IF f \in ExistingFiles THEN Occurrences(Pairs, <<f, s>>) ELSE 0

C2_Witness ==
    /\ Returned
    /\ pdf_files = <<"gone.pdf", "a.pdf">> /\ strategies = <<"fast", "hi_res">>
    /\ Len(results) = 2
    /\ results[1].success /\ ~results[2].success

\* C3: at every point of the run the records of the result list are, in
\* sweep order (input-major, strategy-minor, in the caller's order), the
\* pairs gone through so far whose input was measured; the returned list of
\* a run whose inputs all exist is exactly the sequence of the pairs; and
\* every step leaves the list built so far as a prefix of the new list.
C3_TraversalOrder ==
    /\ [](entry = "run_benchmark" => RecordPairs = MeasuredPairs(Visited))
    /\ []((Returned /\ \A k \in 1..Len(pdf_files) : pdf_files[k] \in ExistingFiles)
             => RecordPairs = Pairs)
    /\ [][IsPrefix(results, results')]_vars

C3_Witness ==
    /\ Returned
    /\ pdf_files = <<"a.pdf", "b.pdf">> /\ strategies = <<"fast", "hi_res">>
    /\ RecordPairs = << <<"a.pdf", "fast">>, <<"a.pdf", "hi_res">>,
                        <<"b.pdf", "fast">>, <<"b.pdf", "hi_res">> >>

\* The last call of test_extraction was made in `phase`, on a path that
\* references no file.
LastCallMissing(phase) ==
    /\ calls # << >>
    /\ calls[Len(calls)][1] = phase
    /\ calls[Len(calls)][2] \notin disk

\* C4 as stated: test_extraction on a path that references no file yields a
\* failure record tagged "input not found" and sends no request.
C4_NotFoundRecord ==
    (entry = "test_extraction" /\ pc = "done" /\ LastCallMissing("direct"))
        => (IsRecord(r) /\ ~r.success /\ r.error = "input not found" /\ nPosts = 0)

\* C4 as amended: test_extraction on a path that references no file returns
\* no record (None) and sends no request, in a direct call and in the sweep.
C4_NotFoundReturnsNone ==
    /\ (entry = "test_extraction" /\ pc = "done" /\ LastCallMissing("direct"))
          => (r = None /\ nPosts = 0 /\ last_answer = NoAnswer)
    /\ (entry = "run_benchmark" /\ LastCallMissing("sweep"))
          => (r = None /\ last_answer = NoAnswer)

C4_Witness ==
    /\ entry = "test_extraction" /\ pc = "done"
    /\ pdf_files = <<"gone.pdf">> /\ r = None /\ nPosts = 0

\* C5: wait_for_api never issues more than retries attempts and none after
\* an attempt answered 200; it returns True exactly after the first attempt
\* answered 200, and False after exactly retries attempts that all failed.
C5_ProbeAttempts ==
    entry \in {"wait_for_api", "run_benchmark"} =>
        /\ nHealth <= retries
        /\ \A k \in 1..(nHealth - 1) : ~health_log[k]
        /\ api_ready = "true" <=> (nHealth >= 1 /\ health_log[nHealth])
        /\ api_ready = "false" =>
              (nHealth = retries /\ \A k \in 1..nHealth : ~health_log[k])
        /\ (entry = "wait_for_api" /\ pc = "done") => api_ready # "pending"

C5_Witness ==
    /\ entry = "wait_for_api" /\ pc = "done" /\ retries >= 3
    /\ api_ready = "true"
    /\ health_log = <<FALSE, FALSE, TRUE>>

\* C6: with warm-up enabled, a first input and a first strategy, once the
\* warm-up step that follows a successful probe is over exactly one warm-up call of test_extraction has
\* been made, on the first input with the first strategy and before any
\* other call; it leaves the result list empty, and the returned list holds
\* the pair (first input, first strategy) as often as the sweep measured it.
C6_WarmUpDiscarded ==
    (/\ entry = "run_benchmark" /\ warmup /\ api_ready = "true"
     /\ pdf_files # << >> /\ strategies # << >>
     /\ pc \in {"estimator", "sweep", "done"})
        => /\ PhaseCalls("warmup") = {1}
           /\ calls[1] = <<"warmup", pdf_files[1], strategies[1]>>
           /\ pc = "estimator" => results = << >>
           /\ Len(results) <= Visited
           /\ pc = "done" =>
                 Occurrences(RecordPairs, <<pdf_files[1], strategies[1]>>) =
                     IF pdf_files[1] \in ExistingFiles
                     THEN Occurrences(Pairs, <<pdf_files[1], strategies[1]>>)
                     ELSE 0

C6_Witness ==
    /\ Returned /\ warmup
    /\ pdf_files = <<"a.pdf", "b.pdf">> /\ strategies = <<"fast", "hi_res">>
    /\ PhaseCalls("warmup") = {1}
    /\ Occurrences(RecordPairs, <<"a.pdf", "fast">>) = 1
    /\ Len(results) = 4

\* C7: run_benchmark calls run_estimator at most once, only with a positive
\* estimate_pages and only on the first input with the first strategy; at
\* most one sample is measured; no record of the result list is the sample
\* measurement or the projection, and the list holds no more records than
\* the sweep has made calls.
C7_ProjectionOnceNotMerged ==
    entry = "run_benchmark" =>
        /\ Cardinality(PhaseCalls("run_estimator")) <= 1
        /\ \A k \in PhaseCalls("run_estimator") :
              /\ estimate_pages > 0
              /\ calls[k] = <<"run_estimator", pdf_files[1], strategies[1]>>
        /\ Cardinality(PhaseCalls("sample")) <= 1
        /\ \A k \in PhaseCalls("sample") :
              calls[k] = <<"sample", HeadName(pdf_files[1], estimate_pages), strategies[1]>>
        /\ \A k \in 1..Len(results) :
              results[k].filename \notin SamplePaths /\ results[k] # est
        /\ Len(results) <= Visited

C7_Witness ==
    /\ Returned /\ estimate_pages > 0
    /\ est # None
    /\ Cardinality(PhaseCalls("sample")) = 1
    /\ Len(results) = 4

\* The page count of the document given to run_estimator is known and
\* greater than estimate_pages, which is positive.
SampleWorthwhile ==
    /\ estimate_pages > 0
    /\ pdf_files[1] \in ExistingFiles
    /\ ReaderPages(pdf_files[1]) # NoPages
    /\ ReaderPages(pdf_files[1]) > estimate_pages

\* C8: a direct call of run_estimator returns None when estimate_pages <= 0,
\* when the page count is unknown or not greater than estimate_pages, when
\* no sample was written and when the sample measurement did not succeed;
\* in the first four cases no request is sent, so a request is sent only
\* when the page count is known and greater than estimate_pages.
C8_EstimatorSkips ==
    (entry = "run_estimator" /\ pc = "done") =>
        /\ ~SampleWorthwhile => (est = None /\ nPosts = 0 /\ disk = ExistingFiles)
        /\ disk = ExistingFiles => (est = None /\ nPosts = 0)
        /\ last_answer # Response(200) => est = None
        /\ nPosts > 0 => SampleWorthwhile
        /\ nPosts <= 1

C8_Witness ==
    /\ entry = "run_estimator" /\ pc = "done"
    /\ SampleWorthwhile
    /\ nPosts = 1 /\ last_answer = Response(500)
    /\ est = None

\* C9: once the projection step of run_benchmark has been taken, however it
\* ended, the run does not end before the sweep: it is in the sweep or has
\* returned, and when it has returned test_extraction was called for every
\* pair of the sweep, in order, and the list holds the records of the pairs
\* whose input file exists.
C9_SweepAfterProjection ==
    (entry = "run_benchmark" /\ estimated # "no") =>
        /\ pc \in {"sweep", "done"}
        /\ pc = "done" =>
              /\ SweepCalls = Pairs
              /\ RecordPairs = MeasuredPairs(Len(Pairs))

C9_Witness ==
    /\ Returned /\ estimated = "returned"
    /\ est = None /\ Cardinality(PhaseCalls("sample")) = 1
    /\ Len(SweepCalls) = 4 /\ Len(results) = 4

\* The direct call of test_extraction ended with a timeout of session.post.
TimedOut == entry = "test_extraction" /\ pc = "done" /\ last_answer = TimeoutRaised

\* C10 as stated: on a timeout the record is a failure tagged as a timeout
\* whose elapsed time (minutes, two decimals) is at most the timeout.
C10_ElapsedCapped ==
    TimedOut =>
        /\ ~r.success /\ r.error = "Timeout"
        /\ r.elapsed_minutes <= RoundDiv(timeout * 100, 60)

\* C10 as amended: on a timeout the record is a failure tagged "Timeout"
\* whose elapsed time is the measured time of the call, in minutes rounded
\* to two decimals, whether or not it exceeds the timeout.
C10_TimeoutRecordsMeasured ==
    TimedOut =>
        /\ ~r.success /\ r.error = "Timeout"
        /\ r.elapsed_minutes = RoundDiv(latency * 100, 60)

C10_Witness ==
    /\ TimedOut /\ r.error = "Timeout"
    /\ latency > timeout
    /\ r.elapsed_minutes > RoundDiv(timeout * 100, 60)

\* The direct call of test_extraction has returned and its request was
\* answered with an HTTP response.
Answered ==
    /\ entry = "test_extraction" /\ pc = "done"
    /\ last_answer.kind = "response"

\* The statuses of the 2xx range.
InSuccessRange(status) == status \in 200..299

\* C11: for every HTTP response to the extraction request, test_extraction
\* yields a success record exactly when the status is in the success range,
\* and otherwise a failure record whose error is "HTTP <status>" and whose
\* body snippet has at most 600 characters.
C11_SuccessIffSuccessStatus ==
    Answered =>
        /\ IsRecord(r)
        /\ r.success <=> InSuccessRange(last_answer.status_code)
        /\ ~r.success =>
              /\ r.error = "HTTP " \o ToString(last_answer.status_code)
              /\ r.response_snippet <= SnippetMax

\* C12: with save_raw enabled and a failure at any step of writing the side
\* file (creating the directory, opening or writing the file), the value
\* test_extraction returns is the one it returns with save_raw disabled, and
\* a response with status 200 still yields a success record.
C12_PersistFailureIgnored ==
    (entry = "test_extraction" /\ pc = "done" /\ save_raw /\ raw_fault \in RawFaults) =>
        /\ r = test_extraction(ExistingFiles, pdf_files[1], strategies[1],
                               last_answer, latency, body, FALSE, "none")
        /\ last_answer = Response(200) => r.success

\* The number of elements C13 gives for the value response.json() returns:
\* the length of a list, of the list under 'elements' of an object, of the
\* list a string decodes to (the payload itself or the value under
\* 'elements'), and 0 for every other shape.
ElementsClaimed(json) ==
    IF json.type = "list" THEN json.len
    ELSE IF json.type = "str"
        THEN IF json.decoded.type = "list" THEN json.decoded.len ELSE 0
    ELSE IF json.type = "dict" /\ json.elements.type = "list" THEN json.elements.len
    ELSE IF json.type = "dict" /\ json.elements.type = "str"
        THEN IF json.elements.decoded.type = "list"
             THEN json.elements.decoded.len ELSE 0
    ELSE 0

\* C13: on a response with status 200 the record is a success and its
\* elements_count is the number of extracted elements of each accepted
\* shape of the payload (a list, an object with the list under 'elements',
\* a string holding a re-encoded list) and 0 for every other shape.
C13_ElementsCounted ==
    (Answered /\ last_answer = Response(200)) =>
        /\ r.success
        /\ r.elements_count = ElementsClaimed(body.json)

\* print_final_report has returned.
Reported == entry = "print_final_report" /\ pc = "done"

\* The list given to print_final_report holds no successful record.
NoSuccess == \A k \in 1..Len(results) : ~results[k].success

\* What the summary is made of: the counts, and the rates and statistics.
CountFields == {"total_tests", "successful", "failed"}
RateFields ==
    {"total_mb", "total_seconds", "total_pages", "agg_mb_per_s", "agg_mb_per_min",
     "agg_pages_per_min", "avg_speed", "max_speed", "min_speed", "daily_capacity_gb"}

\* C14 as stated: for every list without a successful record, the empty
\* list included, print_final_report reports the total, successful and
\* failed counts and no rate or statistics.
C14_CountsOnly ==
    (Reported /\ NoSuccess) =>
        /\ CountFields \subseteq DOMAIN summary
        /\ summary.total_tests = Len(results)
        /\ summary.successful = 0
        /\ summary.failed = Len(results)
        /\ DOMAIN summary \cap RateFields = {}

\* C14 as amended: print_final_report returns for every list; for a list of
\* failures only it reports the total, successful (0, with its percentage)
\* and failed counts and no rate or statistics; for the empty list it
\* reports "No results to report" and neither counts nor rates.
C14_CountsUnlessEmpty ==
    (Reported /\ NoSuccess) =>
        IF results = << >>
        THEN /\ DOMAIN summary = {"message"}
             /\ summary.message = "No results to report"
        ELSE /\ DOMAIN summary = CountFields \cup {"successful_percent"}
             /\ summary.total_tests = Len(results)
             /\ summary.successful = 0
             /\ summary.successful_percent = 0
             /\ summary.failed = Len(results)

C14_Witness ==
    /\ Reported /\ NoSuccess
    /\ Len(results) = 2
    /\ summary.total_tests = 2 /\ summary.failed = 2
    /\ "agg_mb_per_s" \notin DOMAIN summary

\* The size and the time of the successful records of a list, record by
\* record.
RECURSIVE SizeOfSuccesses(_)
SizeOfSuccesses(list) ==
    IF list = << >> THEN 0
    ELSE (IF Head(list).success THEN Head(list).size_mb ELSE 0)
             + SizeOfSuccesses(Tail(list))

RECURSIVE TimeOfSuccesses(_)
TimeOfSuccesses(list) ==
    IF list = << >> THEN 0
    ELSE (IF Head(list).success THEN Head(list).processing_time_seconds ELSE 0)
             + TimeOfSuccesses(Tail(list))

\* The list of the example: successes of 10 MB in 60 s and of 20 MB in 30 s.
ExampleList ==
    /\ Len(results) = 2
    /\ results[1].success /\ results[2].success
    /\ results[1].size_mb = 10 /\ results[1].processing_time_seconds = 60
    /\ results[2].size_mb = 20 /\ results[2].processing_time_seconds = 30

\* C15: for every list with a successful record the total size and the
\* total time of the summary are the sums over the successful records only,
\* and the aggregate rate is total size / total time, or 0 when the total
\* time is 0; successes of 10 MB in 60 s and 20 MB in 30 s give 30 MB, 90 s
\* and 30/90 MB/s.
C15_TotalsOverSuccesses ==
    (Reported /\ ~NoSuccess) =>
        /\ summary.total_mb = SizeOfSuccesses(results)
        /\ summary.total_seconds = TimeOfSuccesses(results)
        /\ summary.successful + summary.failed = Len(results)
        /\ IF summary.total_seconds = 0
           THEN summary.agg_mb_per_s.num = 0
           ELSE /\ summary.agg_mb_per_s.num * summary.total_seconds
                      = summary.total_mb * summary.agg_mb_per_s.den
                /\ summary.agg_mb_per_s.den > 0
        /\ ExampleList =>
              /\ summary.total_mb = 30
              /\ summary.total_seconds = 90
              /\ summary.agg_mb_per_s = [num |-> 1, den |-> 3]

C15_Witness ==
    /\ Reported /\ ExampleList
    /\ summary.total_mb = 30 /\ summary.total_seconds = 90
    /\ summary.agg_mb_per_s = [num |-> 1, den |-> 3]

\* The value 0 of a rate rounded to five decimals.
Zero5 == [whole |-> 0, e5 |-> 0]

\* C16: a measurement answered 200 whose elapsed time is 0 gives a success
\* record whose derived rates are all 0: the size rates per second, minute
\* and hour and, when the page count is known, the page rates per minute
\* and hour.
C16_ZeroElapsedZeroRates ==
    (Answered /\ last_answer = Response(200) /\ latency = 0 /\ ~save_raw) =>
        /\ r.success
        /\ r.processing_time_seconds = 0
        /\ r.speed_mb_per_second = Zero5
        /\ r.speed_mb_per_minute = Zero5
        /\ r.speed_mb_per_hour = Zero5
        /\ r.pages # NoPages => (r.pages_per_minute = 0 /\ r.pages_per_hour = 0)

\* x is the quotient n / d rounded to the nearest integer, d > 0.
IsRounded(x, n, d) ==
    LET diff == x * d - n
    IN  2 * (IF diff < 0 THEN -diff ELSE diff) <= d

\* The projection of the example: a sample of 10 pages measured at 12 s, of
\* a document of 100 pages.
ExampleProjection ==
    Projection([processing_time_seconds |-> 12, strategy |-> "fast"], 10, 100,
               HeadName("a.pdf", 10))

\* C17: when run_estimator returns a projection, its time per page is the
\* elapsed time of the sample / estimate_pages, its total is that quotient x
\* the page count of the document, its minutes are the total / 60 and its
\* hours the minutes / 60, each rounded as recorded (3, 2, 2 and 3
\* decimals); 12 s over 10 pages of 100 give 1.2 s per page, 120 s and 2 min.
C17_ProjectionMath ==
    /\ (entry = "run_estimator" /\ pc = "done" /\ est # None) =>
          /\ est.sample_pages = estimate_pages
          /\ est.total_pages = ReaderPages(pdf_files[1])
          /\ IsRounded(est.time_per_page_seconds, latency * 1000, estimate_pages)
          /\ IsRounded(est.estimated_total_seconds,
                       latency * est.total_pages * 100, estimate_pages)
          /\ IsRounded(est.estimated_total_minutes,
                       latency * est.total_pages * 100, estimate_pages * 60)
          /\ IsRounded(est.estimated_total_hours,
                       latency * est.total_pages * 1000, estimate_pages * 3600)
    /\ ExampleProjection.time_per_page_seconds = 1200
    /\ ExampleProjection.estimated_total_seconds = 12000
    /\ ExampleProjection.estimated_total_minutes = 200
    /\ ExampleProjection.estimated_total_hours = 33

C17_Witness ==
    /\ entry = "run_estimator" /\ pc = "done" /\ est # None
    /\ latency = 2 /\ estimate_pages = 1 /\ est.total_pages = 2
    /\ est.time_per_page_seconds = 2000
    /\ est.estimated_total_seconds = 400
    /\ est.estimated_total_minutes = 7
    /\ est.estimated_total_hours = 1

\* The extraction requests sent so far, in order: the calls of
\* test_extraction whose input was found.
Requests ==
    SelectSeq(calls, LAMBDA c : c[1] # "run_estimator" /\ c[2] \in disk)

\* The place of a phase in the order of run_benchmark.
PhaseRank(phase) ==
    CASE phase = "warmup" -> 1
      [] phase = "sample" -> 2
      [] phase = "sweep" -> 3

\* C18: in every run of run_benchmark the extraction requests are sent in
\* the order warm-up (at most one, only if enabled), projection sample (at
\* most one), sweep; none is sent before a health check was answered 200,
\* which is then the last health check made; and no health check is made
\* once an extraction request was sent.
C18_PhaseOrder ==
    /\ [](entry = "run_benchmark" =>
            /\ Len(Requests) = nPosts
            /\ \A j, k \in 1..Len(Requests) :
                  j < k => PhaseRank(Requests[j][1]) <= PhaseRank(Requests[k][1])
            /\ Cardinality(PhaseCalls("warmup")) <= (IF warmup THEN 1 ELSE 0)
            /\ Cardinality(PhaseCalls("sample")) <= 1
            /\ calls # << >> =>
                  (api_ready = "true" /\ nHealth >= 1 /\ health_log[nHealth]))
    /\ [][(entry = "run_benchmark" /\ health_log' # health_log)
              => (calls = << >> /\ calls' = << >> /\ nPosts' = 0)]_vars
    /\ [][(entry = "run_benchmark" /\ nPosts' # nPosts)
              => (api_ready = "true" /\ health_log' = health_log
                  /\ nPosts' = nPosts + 1)]_vars

C18_Witness ==
    /\ Returned /\ warmup /\ nHealth = 2
    /\ health_log = <<FALSE, TRUE>>
    /\ Len(Requests) = 6
    /\ Requests[1][1] = "warmup" /\ Requests[2][1] = "sample"
    /\ Requests[3][1] = "sweep" /\ Requests[6][1] = "sweep"

\* The number of successful records of the result list.
Successes == Cardinality({k \in 1..Len(results) : results[k].success})

\* A step that is a call of test_extraction in the sweep.
SweepStep ==
    /\ entry = "run_benchmark"
    /\ Len(calls') = Len(calls) + 1
    /\ calls'[Len(calls')][1] = "sweep"

\* C19: the sweep pauses once after each successful measurement and never
\* otherwise: a sweep call pauses exactly when the value it returned is a
\* successful record, so the pause comes before the next call; no other
\* step pauses, so no pause precedes the first sweep call; at every point
\* the pauses made are as many as the successful measurements of the sweep.
C19_PauseAfterSuccess ==
    /\ [](entry = "run_benchmark" =>
            /\ nPauses = Successes
            /\ SweepCalls = << >> => nPauses = 0)
    /\ [][SweepStep => nPauses' = nPauses + (IF Succeeded(r') THEN 1 ELSE 0)]_vars
    /\ [][(entry = "run_benchmark" /\ nPauses' # nPauses)
              => (SweepStep /\ Succeeded(r') /\ nPauses' = nPauses + 1)]_vars

C19_Witness ==
    /\ Returned
    /\ Len(results) = 4
    /\ results[1].success /\ ~results[2].success
    /\ ~results[3].success /\ results[4].success
    /\ nPauses = 2

\* C20: in wait_for_api the sleep separates consecutive attempts: once the
\* probe has returned after n attempts it has slept n - 1 times, so a probe
\* whose retries attempts all failed has slept retries - 1 times and every
\* sleep was followed by a further attempt.
C20_SleepBetweenAttempts ==
    (entry = "wait_for_api" /\ pc = "done" /\ nHealth >= 1) =>
        nSleeps = nHealth - 1

\* C21: after a successful probe run_benchmark does not raise, whatever the
\* inputs and the strategies; with an empty strategies list, warm-up or
\* projection enabled, it returns the empty list.
C21_ReturnsWithoutRaising ==
    (entry = "run_benchmark" /\ api_ready = "true") =>
        /\ pc # "raised"
        /\ (strategies = << >> /\ pc \in {"estimator", "sweep"}) => results = << >>
        /\ (strategies = << >> /\ pc = "done") => results = << >>

\* The run has ended: the entry point has returned, or run_benchmark was
\* left by an exception.
Ended == pc \in {"done", "raised"}

\* The extraction requests of a phase.
PhaseRequests(phase) == {k \in 1..Len(Requests) : Requests[k][1] = phase}

\* C22: every HTTP call returning or raising, every run of run_benchmark
\* ends; at every point it has issued at most retries health-check requests
\* and at most |pdf_files| x |strategies| + 2 extraction requests: at most
\* one for the warm-up, one for the projection sample and one per pair of
\* the sweep.
C22_EndsWithinBounds ==
    /\ <>(entry = "run_benchmark" => Ended)
    /\ [](entry = "run_benchmark" =>
            /\ nHealth <= retries
            /\ nPosts <= Len(pdf_files) * Len(strategies) + 2
            /\ nPosts = Len(Requests)
            /\ Cardinality(PhaseRequests("warmup")) <= 1
            /\ Cardinality(PhaseRequests("sample")) <= 1
            /\ Cardinality(PhaseRequests("sweep")) <= Len(pdf_files) * Len(strategies))
    /\ [][entry = "run_benchmark" => nPosts' <= nPosts + 1]_vars

C22_Witness ==
    /\ entry = "run_benchmark" /\ Ended
    /\ Len(pdf_files) = 2 /\ Len(strategies) = 2
    /\ nHealth = retries
    /\ nPosts = Len(pdf_files) * Len(strategies) + 2

====
